---- MODULE Spec2Model ----
(***************************************************************************)
(* A model of the page/WAL key-value store: the row codec (row.rs), the    *)
(* page (page.rs), the write-ahead log (wal.rs), the page index and its    *)
(* operations (db.rs) and the open/recovery path (main.rs).                *)
(*                                                                         *)
(* Bytes are numbers 0..255, files are sequences of bytes.  A function     *)
(* that can panic returns a record with an ok field; ok = FALSE is the     *)
(* panic.                                                                  *)
(***************************************************************************)
EXTENDS Integers, Sequences, FiniteSets, TLC

(***************************************************************************)
(* Program constants.                                                      *)
(***************************************************************************)
\* page.rs: PAGE_SIZE under the small_pages feature.
PAGE_SIZE == 56

\* Stands for NonZeroU32::MAX and u32::MAX in the range sentinels of db.rs.  The
\* model checker's integers end at 2^31 - 1; every id and count of the model is
\* far below it, so it is the top of the order as 2^32 - 1 is in the program.
U32_MAX == 2147483647
U16_MAX == 65535

(***************************************************************************)
(* Bounds of the model.                                                    *)
(***************************************************************************)
\* ids are 1..MaxId
MaxId == 3
\* a run makes at most this many inserts and removes
MaxOps == 2
\* the pure codec specifications draw lists of at most this many items
MaxLen == 2
\* a WAL file loses at most this many of its last bytes
MaxCut == 12
\* the page specification makes at most this many Page::insert and Page::remove
MaxPageOps == 2
\* the cell specification draws Bytes cells of at most this many bytes, and the
\* three longest the length prefix can express
MaxCellLen == 30
\* the fold specification: ids are 1..MaxFoldId, at most MaxFoldOps inserts
MaxFoldId == 5
MaxFoldOps == 4

Ids == 1..MaxId

(***************************************************************************)
(* utils.rs and integer encodings.                                         *)
(***************************************************************************)
LE32(n) ==
    << n % 256, (n \div 256) % 256, (n \div 65536) % 256, (n \div 16777216) % 256 >>

LE16(n) ==
    << n % 256, (n \div 256) % 256 >>

bytes_to_u32(b) ==
    b[1] + 256 * b[2] + 65536 * b[3] + 16777216 * b[4]

bytes_to_u16(b) ==
    b[1] + 256 * b[2]

\* &bytes[from..to] of Rust (0-based, to exclusive); the caller checks bounds.
Slice(bytes, from, to) ==
    SubSeq(bytes, from + 1, to)

\* vec![0; n]
Zeros(n) ==
    [i \in 1..n |-> 0]

Min(S) == CHOOSE x \in S : \A y \in S : x <= y
Max(S) == CHOOSE x \in S : \A y \in S : x >= y

\* The elements of a finite set of numbers in ascending order (BTreeMap order).
RECURSIVE Ascending(_)
Ascending(S) ==
    IF S = {} THEN << >> ELSE << Min(S) >> \o Ascending(S \ {Min(S)})

(***************************************************************************)
(* row.rs: RowType, RowVal and the row codec.  A cell is a record          *)
(* [k, n, b]: k the variant, n the number of Id/U32 (Bool: 0 or 1), b the  *)
(* bytes of Bytes.                                                         *)
(***************************************************************************)
Id(n) == [k |-> "Id", n |-> n, b |-> << >>]
U32(n) == [k |-> "U32", n |-> n, b |-> << >>]
Bytes(b) == [k |-> "Bytes", n |-> 0, b |-> b]
Bool(x) == [k |-> "Bool", n |-> IF x THEN 1 ELSE 0, b |-> << >>]

RowType_to_bytes(t) ==
    CASE t = "Id" -> << 0 >>
      [] t = "U32" -> << 1 >>
      [] t = "Bytes" -> << 2 >>
      [] t = "Bool" -> << 3 >>

\* unreachable!() for a byte above 3: ok = FALSE
RowType_from_bytes(byte) ==
    CASE byte = 0 -> [ok |-> TRUE, t |-> "Id"]
      [] byte = 1 -> [ok |-> TRUE, t |-> "U32"]
      [] byte = 2 -> [ok |-> TRUE, t |-> "Bytes"]
      [] byte = 3 -> [ok |-> TRUE, t |-> "Bool"]
      [] OTHER -> [ok |-> FALSE, t |-> "Id"]

RowVal_to_bytes(c) ==
    CASE c.k = "Id" -> LE32(c.n)
      [] c.k = "U32" -> LE32(c.n)
      [] c.k = "Bytes" -> LE16(Len(c.b) % 65536) \o c.b
      [] c.k = "Bool" -> << c.n >>

\* u16 arithmetic; the release build wraps.
RowVal_size(c) ==
    CASE c.k = "Id" -> 4
      [] c.k = "U32" -> 4
      [] c.k = "Bytes" -> ((Len(c.b) % 65536) + 2) % 65536
      [] c.k = "Bool" -> 1

\* RowVal::size as a build with overflow checks and a build without them run it.
\* [ok, n]: ok = FALSE is the panic "attempt to add with overflow" of len + 2.
RowVal_size_outcomes(c) ==
    IF c.k = "Bytes" /\ (Len(c.b) % 65536) + 2 > U16_MAX
    THEN {[ok |-> FALSE, n |-> 0], [ok |-> TRUE, n |-> RowVal_size(c)]}
    ELSE {[ok |-> TRUE, n |-> RowVal_size(c)]}

RECURSIVE values_to_bytes(_)
values_to_bytes(values) ==
    IF values = << >> THEN << >>
    ELSE RowVal_to_bytes(Head(values)) \o values_to_bytes(Tail(values))

RECURSIVE schema_to_bytes(_)
schema_to_bytes(schema) ==
    IF schema = << >> THEN << >>
    ELSE RowType_to_bytes(Head(schema)) \o schema_to_bytes(Tail(schema))

RECURSIVE schema_from_bytes(_)
schema_from_bytes(bytes) ==
    IF bytes = << >> THEN [ok |-> TRUE, schema |-> << >>]
    ELSE LET h == RowType_from_bytes(Head(bytes))
             r == schema_from_bytes(Tail(bytes))
         IN  IF h.ok /\ r.ok
             THEN [ok |-> TRUE, schema |-> << h.t >> \o r.schema]
             ELSE [ok |-> FALSE, schema |-> << >>]

BtvPanic == [ok |-> FALSE, vals |-> << >>, n |-> 0]

\* The loop of bytes_to_values from schema position j on, at offset i, with the
\* cells read so far in acc.  A slice past the end, a zero Id and a Bool byte
\* other than 0 and 1 panic.
RECURSIVE BtvLoop(_, _, _, _, _)
BtvLoop(bytes, schema, j, i, acc) ==
    IF j > Len(schema) THEN [ok |-> TRUE, vals |-> acc, n |-> i]
    ELSE LET t == schema[j] IN
         CASE t = "Id" ->
                IF i + 4 > Len(bytes) THEN BtvPanic
                ELSE LET v == bytes_to_u32(Slice(bytes, i, i + 4)) IN
                     IF v = 0 THEN BtvPanic
                     ELSE BtvLoop(bytes, schema, j + 1, i + 4, Append(acc, Id(v)))
           [] t = "U32" ->
                IF i + 4 > Len(bytes) THEN BtvPanic
                ELSE BtvLoop(bytes, schema, j + 1, i + 4,
                             Append(acc, U32(bytes_to_u32(Slice(bytes, i, i + 4)))))
           [] t = "Bytes" ->
                IF i + 2 > Len(bytes) THEN BtvPanic
                ELSE LET len == bytes_to_u16(Slice(bytes, i, i + 2)) IN
                     IF i + len + 2 > Len(bytes) THEN BtvPanic
                     ELSE BtvLoop(bytes, schema, j + 1, i + 2 + len,
                                  Append(acc, Bytes(Slice(bytes, i + 2, i + 2 + len))))
           [] t = "Bool" ->
                IF i + 1 > Len(bytes) THEN BtvPanic
                ELSE LET v == bytes[i + 1] IN
                     IF v > 1 THEN BtvPanic
                     ELSE BtvLoop(bytes, schema, j + 1, i + 1, Append(acc, Bool(v = 1)))

bytes_to_values(bytes, schema) ==
    BtvLoop(bytes, schema, 1, 0, << >>)

\* split_row panics on an empty row and on a row whose first cell is no Id.
RowOk(row) ==
    /\ row # << >>
    /\ row[1].k = "Id"

RowId(row) == row[1].n
RowTail(row) == Tail(row)

(***************************************************************************)
(* The derived orderings (#[derive(PartialOrd, Ord)]): three-way            *)
(* comparisons returning -1, 0 or 1.                                        *)
(***************************************************************************)
CmpInt(a, b) ==
    IF a < b THEN -1 ELSE IF a > b THEN 1 ELSE 0

\* Ordering::then: the first comparison unless it is Equal
Then(c, d) ==
    IF c # 0 THEN c ELSE d

RECURSIVE CmpBytes(_, _)
CmpBytes(s, t) ==
    IF s = << >> THEN (IF t = << >> THEN 0 ELSE -1)
    ELSE IF t = << >> THEN 1
    ELSE IF Head(s) # Head(t) THEN CmpInt(Head(s), Head(t))
    ELSE CmpBytes(Tail(s), Tail(t))

\* the position of a variant in enum RowType / enum RowVal
VariantIndex(k) ==
    CASE k = "Id" -> 0 [] k = "U32" -> 1 [] k = "Bytes" -> 2 [] k = "Bool" -> 3

CmpRowVal(c, d) ==
    IF c.k # d.k THEN CmpInt(VariantIndex(c.k), VariantIndex(d.k))
    ELSE IF c.k = "Bytes" THEN CmpBytes(c.b, d.b)
    ELSE CmpInt(c.n, d.n)

RECURSIVE CmpRow(_, _)
CmpRow(s, t) ==
    IF s = << >> THEN (IF t = << >> THEN 0 ELSE -1)
    ELSE IF t = << >> THEN 1
    ELSE Then(CmpRowVal(Head(s), Head(t)), CmpRow(Tail(s), Tail(t)))

RECURSIVE CmpSchema(_, _)
CmpSchema(s, t) ==
    IF s = << >> THEN (IF t = << >> THEN 0 ELSE -1)
    ELSE IF t = << >> THEN 1
    ELSE IF Head(s) # Head(t) THEN CmpInt(VariantIndex(Head(s)), VariantIndex(Head(t)))
    ELSE CmpSchema(Tail(s), Tail(t))

\* BTreeMap's Ord: the (key, value) entries in key order, lexicographically.
RECURSIVE CmpEntries(_, _, _, _)
CmpEntries(d, ks, e, ls) ==
    IF ks = << >> THEN (IF ls = << >> THEN 0 ELSE -1)
    ELSE IF ls = << >> THEN 1
    ELSE IF Head(ks) # Head(ls) THEN CmpInt(Head(ks), Head(ls))
    ELSE Then(CmpRow(d[Head(ks)], e[Head(ls)]), CmpEntries(d, Tail(ks), e, Tail(ls)))

CmpData(d, e) ==
    CmpEntries(d, Ascending(DOMAIN d), e, Ascending(DOMAIN e))

CmpBool(a, b) ==
    CmpInt(IF a THEN 1 ELSE 0, IF b THEN 1 ELSE 0)

\* struct PageHeader { end, start, count }
CmpHeader(h, g) ==
    Then(CmpInt(h.end, g.end), Then(CmpInt(h.start, g.start), CmpInt(h.count, g.count)))

\* struct Page { header, data, dirty, size, schema }
CmpPage(p, q) ==
    Then(CmpHeader(p.header, q.header),
         Then(CmpData(p.data, q.data),
              Then(CmpBool(p.dirty, q.dirty),
                   Then(CmpInt(p.size, q.size), CmpSchema(p.schema, q.schema)))))

(***************************************************************************)
(* wal.rs: WALRecord and its codec.                                        *)
(***************************************************************************)
Insert(id, row) == [t |-> "Insert", id |-> id, row |-> row]
Delete(id) == [t |-> "Delete", id |-> id, row |-> << >>]

WALRecord_to_bytes(r) ==
    IF r.t = "Insert" THEN LE32(r.id) \o values_to_bytes(r.row)
    ELSE << 0, 0, 0, 0 >> \o LE32(r.id)

WalPanic == [ok |-> FALSE, rec |-> Delete(1), n |-> 0]

\* The number of bytes WALRecord::from_bytes reports for an Insert whose row
\* took incr bytes.
InsertConsumed(incr) ==
    incr + 4

\* rows[0] panics on an empty row; a first cell that is no Id panics.
InsertOfValues(r) ==
    IF ~r.ok \/ r.vals = << >> \/ r.vals[1].k # "Id" THEN WalPanic
    ELSE [ok |-> TRUE, rec |-> Insert(r.vals[1].n, Tail(r.vals)),
          n |-> InsertConsumed(r.n)]

WALRecord_from_bytes(bytes, schema) ==
    IF Len(bytes) < 4 THEN WalPanic
    ELSE IF Slice(bytes, 0, 4) = << 0, 0, 0, 0 >>
    THEN IF Len(bytes) < 8 \/ bytes_to_u32(Slice(bytes, 4, 8)) = 0 THEN WalPanic
         ELSE [ok |-> TRUE, rec |-> Delete(bytes_to_u32(Slice(bytes, 4, 8))), n |-> 8]
    ELSE InsertOfValues(bytes_to_values(bytes, schema))

\* The while loop of deserialize_wal at offset i with the records read so far.
RECURSIVE WalLoop(_, _, _, _)
WalStep(bytes, schema, i, acc, r) ==
    IF ~r.ok THEN [ok |-> FALSE, recs |-> << >>]
    ELSE WalLoop(bytes, schema, i + r.n, Append(acc, r.rec))

WalLoop(bytes, schema, i, acc) ==
    IF ~(i < Len(bytes) - 4) THEN [ok |-> TRUE, recs |-> acc]
    ELSE WalStep(bytes, schema, i, acc,
                 WALRecord_from_bytes(Slice(bytes, i, Len(bytes)), schema))

deserialize_wal(bytes, schema) ==
    IF Len(bytes) < 4 THEN [ok |-> TRUE, recs |-> << >>]
    ELSE WalLoop(bytes, schema, 0, << >>)

RECURSIVE wal_to_bytes(_)
wal_to_bytes(recs) ==
    IF recs = << >> THEN << >>
    ELSE WALRecord_to_bytes(Head(recs)) \o wal_to_bytes(Tail(recs))

(***************************************************************************)
(* page.rs: PageHeader and Page.  A page is a record                        *)
(* [header |-> [end, start, count], data, dirty, size, schema]; data is a   *)
(* function from the ids of the page to their row tails.                    *)
(***************************************************************************)
None == [some |-> FALSE, v |-> << >>]
Some(v) == [some |-> TRUE, v |-> v]

PageHeader_to_bytes(h) ==
    LE32(h.end) \o LE32(h.start) \o LE32(h.count)

\* NonZeroU32::new(..).unwrap() panics on a zero end or start.
PageHeader_from_bytes(bytes) ==
    LET end == bytes_to_u32(Slice(bytes, 0, 4))
        start == bytes_to_u32(Slice(bytes, 4, 8))
        count == bytes_to_u32(Slice(bytes, 8, 12))
    IN  [ok |-> end # 0 /\ start # 0,
         header |-> [end |-> end, start |-> start, count |-> count]]

PageHeader_size == 12

RECURSIVE RowSize(_)
RowSize(row) ==
    IF row = << >> THEN 0 ELSE RowVal_size(Head(row)) + RowSize(Tail(row))

\* data.iter().flat_map(|r| r.iter().map(|c| c.size())).sum::<u16>(): every row
\* of the list counts, also one whose id a later row repeats.
RECURSIVE RowsSize(_)
RowsSize(rows) ==
    IF rows = << >> THEN 0 ELSE (RowSize(Head(rows)) + RowsSize(Tail(rows))) % 65536

\* BTreeMap::from_iter over the rows: the last row of an id wins.
RowsToData(rows) ==
    [id \in {RowId(rows[i]) : i \in 1..Len(rows)} |->
        RowTail(rows[Max({i \in 1..Len(rows) : RowId(rows[i]) = id})])]

\* start, end and count as Page::new derives them; the sentinel 1 when empty.
HeaderOf(data) ==
    [end |-> IF DOMAIN data = {} THEN 1 ELSE Max(DOMAIN data),
     start |-> IF DOMAIN data = {} THEN 1 ELSE Min(DOMAIN data),
     count |-> Cardinality(DOMAIN data)]

\* The clean page of a data map, with the given size.
PageOf(data, size, schema) ==
    [header |-> HeaderOf(data), data |-> data, dirty |-> FALSE, size |-> size,
     schema |-> schema]

Page_new(rows, schema) ==
    PageOf(RowsToData(rows), RowsSize(rows), schema)

Page_new_dirty(rows, schema) ==
    [Page_new(rows, schema) EXCEPT !.dirty = TRUE, !.size = RowsSize(rows)]

\* The rows of a data map in ascending id order, each with its leading Id cell.
RECURSIVE RowsOfKeys(_, _)
RowsOfKeys(data, ks) ==
    IF ks = << >> THEN << >>
    ELSE << << Id(Head(ks)) >> \o data[Head(ks)] >> \o RowsOfKeys(data, Tail(ks))

DataRows(data) ==
    RowsOfKeys(data, Ascending(DOMAIN data))

RECURSIVE RowsToBytes(_)
RowsToBytes(rows) ==
    IF rows = << >> THEN << >>
    ELSE values_to_bytes(Head(rows)) \o RowsToBytes(Tail(rows))

Page_to_bytes(p) ==
    PageHeader_to_bytes(p.header) \o RowsToBytes(DataRows(p.data))

\* panics when the page is larger than the page boundary
Padded(res) ==
    IF Len(res) > PAGE_SIZE THEN [ok |-> FALSE, bytes |-> << >>]
    ELSE [ok |-> TRUE, bytes |-> res \o Zeros(PAGE_SIZE - Len(res))]

Page_to_page_bytes(p) ==
    Padded(Page_to_bytes(p))

\* The row loop of Page::from_bytes: n rows still to read at offset.
RECURSIVE FromBytesLoop(_, _, _, _, _)
FromBytesStep(bytes, schema, n, offset, acc, r) ==
    IF ~r.ok THEN [ok |-> FALSE, rows |-> << >>]
    ELSE FromBytesLoop(bytes, schema, n - 1, offset + r.n, Append(acc, r.vals))

FromBytesLoop(bytes, schema, n, offset, acc) ==
    IF n = 0 THEN [ok |-> TRUE, rows |-> acc]
    ELSE IF offset > Len(bytes) THEN [ok |-> FALSE, rows |-> << >>]
    ELSE FromBytesStep(bytes, schema, n, offset, acc,
                       bytes_to_values(Slice(bytes, offset, Len(bytes)), schema))

PagePanic == [ok |-> FALSE, page |-> PageOf(<< >>, 0, << >>)]

\* Page::new over the rows read; split_row panics on a row that is not RowOk.
PageOfRows(r, schema) ==
    IF ~r.ok \/ \E i \in 1..Len(r.rows) : ~RowOk(r.rows[i]) THEN PagePanic
    ELSE [ok |-> TRUE, page |-> Page_new(r.rows, schema)]

PageOfHeader(bytes, schema, h) ==
    IF ~h.ok THEN PagePanic
    ELSE PageOfRows(FromBytesLoop(bytes, schema, h.header.count, PageHeader_size, << >>),
                    schema)

Page_from_bytes(bytes, schema) ==
    IF Len(bytes) < 12 THEN PagePanic
    ELSE PageOfHeader(bytes, schema, PageHeader_from_bytes(Slice(bytes, 0, 12)))

Page_size(p) == p.size

Page_len(p) == Cardinality(DOMAIN p.data)

\* A split that gives the head the larger number of rows.
SplitAt_rounds_up(rows, mid, schema) ==
    << Page_new_dirty(SubSeq(rows, 1, Len(rows) - mid), schema),
       Page_new_dirty(SubSeq(rows, Len(rows) - mid + 1, Len(rows)), schema) >>

\* (head, tail): the rows before and from position len / 2, as new dirty pages
SplitAt(rows, mid, schema) ==
    << Page_new_dirty(SubSeq(rows, 1, mid), schema),
       Page_new_dirty(SubSeq(rows, mid + 1, Len(rows)), schema) >>

Page_split(p) ==
    SplitAt(DataRows(p.data), Page_len(p) \div 2, p.schema)

\* self.data extended with other.data, rebuilt as a new dirty page
Page_merge(self, other) ==
    Page_new_dirty(DataRows([id \in DOMAIN self.data \cup DOMAIN other.data |->
                                IF id \in DOMAIN other.data THEN other.data[id]
                                ELSE self.data[id]]),
                   self.schema)

Page_get(p, id) ==
    IF id \in DOMAIN p.data THEN Some(p.data[id]) ELSE None

Page_insert(p, row) ==
    [p EXCEPT !.header = [end |-> IF p.header.end > RowId(row) THEN p.header.end
                                  ELSE RowId(row),
                          start |-> IF p.header.start < RowId(row) THEN p.header.start
                                    ELSE RowId(row),
                          count |-> Cardinality(DOMAIN p.data \cup {RowId(row)})],
              !.dirty = TRUE,
              !.data = [k \in DOMAIN p.data \cup {RowId(row)} |->
                           IF k = RowId(row) THEN RowTail(row) ELSE p.data[k]]]

\* A remove that marks the page dirty also when the id is not in it.
Page_remove_marks_dirty(p, id) ==
    IF id \notin DOMAIN p.data THEN [page |-> [p EXCEPT !.dirty = TRUE], ret |-> None]
    ELSE [page |-> [p EXCEPT !.header = HeaderOf([k \in DOMAIN p.data \ {id} |-> p.data[k]]),
                             !.dirty = TRUE,
                             !.data = [k \in DOMAIN p.data \ {id} |-> p.data[k]]],
          ret |-> Some(p.data[id])]

\* A remove that leaves the header's count as it was.
Removed_keeps_count(p, data, old) ==
    [page |-> [p EXCEPT !.header = [HeaderOf(data) EXCEPT !.count = p.header.count],
                        !.dirty = TRUE, !.data = data],
     ret |-> Some(old)]

\* [page, ret]: the page after the call and the value returned
Removed(p, data, old) ==
    [page |-> [p EXCEPT !.header = HeaderOf(data), !.dirty = TRUE, !.data = data],
     ret |-> Some(old)]

Page_remove(p, id) ==
    IF id \notin DOMAIN p.data THEN [page |-> p, ret |-> None]
    ELSE Removed(p, [k \in DOMAIN p.data \ {id} |-> p.data[k]], p.data[id])

(***************************************************************************)
(* db.rs: the page index.  The BTreeSet<Page> is a set of pages ordered by  *)
(* CmpPage.                                                                 *)
(***************************************************************************)
first(ps) == CHOOSE p \in ps : \A q \in ps : CmpPage(p, q) <= 0
last(ps) == CHOOSE p \in ps : \A q \in ps : CmpPage(p, q) >= 0

\* The pages of the index in iteration order.
RECURSIVE PageSeq(_)
PageSeq(ps) ==
    IF ps = {} THEN << >> ELSE << first(ps) >> \o PageSeq(ps \ {first(ps)})

\* The two sentinel pages of the range query.
RangeLower(id) ==
    [header |-> [end |-> id, start |-> 1, count |-> 0],
     data |-> << >>, dirty |-> FALSE, size |-> 0, schema |-> << >>]

RangeUpper(id) ==
    [header |-> [end |-> U32_MAX, start |-> id, count |-> U32_MAX],
     data |-> << >>, dirty |-> TRUE, size |-> 0, schema |-> << >>]

\* self.pages.range(lower..=upper)
PageRange(ps, id) ==
    {p \in ps : CmpPage(RangeLower(id), p) <= 0 /\ CmpPage(p, RangeUpper(id)) <= 0}

\* range.rev().next(): the page the query selects, if any
NextOf(range, id) ==
    IF range = {} THEN [some |-> FALSE, page |-> RangeLower(id)]
    ELSE [some |-> TRUE, page |-> last(range)]

RangeNext(ps, id) ==
    NextOf(PageRange(ps, id), id)

WAL_get(recs, id) ==
    IF id \in DOMAIN recs THEN Some(recs[id]) ELSE None

\* next_page.get(id) on the page of the range query
GetNext(next, id) ==
    IF next.some THEN Page_get(next.page, id) ELSE None

\* A get that looks into the pages before the WAL map.
DB_get_pages_first(ps, recs, id) ==
    IF ps # {} /\ GetNext(RangeNext(ps, id), id).some THEN GetNext(RangeNext(ps, id), id)
    ELSE WAL_get(recs, id)

DB_get(ps, recs, id) ==
    IF id \in DOMAIN recs THEN WAL_get(recs, id)
    ELSE IF ps = {} THEN None
    ELSE GetNext(RangeNext(ps, id), id)

\* The page created by the first insert into an empty index.
FirstPage(id, val, schema) ==
    Page_new(<< << Id(id) >> \o val >>, schema)

\* split a page and insert both halves
InsertHalves(ps, halves) ==
    ps \cup {halves[1], halves[2]}

\* A split at an end of the index that already splits a page that fills its
\* block exactly.
SplitEnd_at_page_size(ps, endPage) ==
    IF Len(Page_to_bytes(endPage)) >= PAGE_SIZE
    THEN InsertHalves(ps \ {endPage}, Page_split(endPage))
    ELSE ps

\* After the row went into a page at one end of the index: split the page now at
\* that end when it is too big.
SplitEnd(ps, endPage) ==
    IF Page_size(endPage) > PAGE_SIZE
    THEN InsertHalves(ps \ {endPage}, Page_split(endPage))
    ELSE ps

\* the prepend case: the row goes into the first page
Prepend(ps, page, row) ==
    LET grown == (ps \ {page}) \cup {Page_insert(page, row)}
    IN  SplitEnd(grown, first(grown))

\* the append case: the row goes into the last page
AppendRow(ps, page, row) ==
    LET grown == (ps \ {page}) \cup {Page_insert(page, row)}
    IN  SplitEnd(grown, last(grown))

\* the page that took the row goes back, split when it is too big
PutBack(ps, grown) ==
    IF Page_size(grown) > PAGE_SIZE THEN InsertHalves(ps, Page_split(grown))
    ELSE ps \cup {grown}

\* the row goes into the page the range query selected
InsertInto(ps, next, row) ==
    IF ~next.some THEN [ok |-> FALSE, pages |-> ps]
    ELSE [ok |-> TRUE, pages |-> PutBack(ps \ {next.page}, Page_insert(next.page, row))]

\* [ok, pages]: ok = FALSE is the unwrap of an empty range
InsertBetween(ps, lo, hi, id, row) ==
    IF id < lo.header.start THEN [ok |-> TRUE, pages |-> Prepend(ps, lo, row)]
    ELSE IF id > hi.header.end THEN [ok |-> TRUE, pages |-> AppendRow(ps, hi, row)]
    ELSE InsertInto(ps, RangeNext(ps, id), row)

insert_to_page(ps, id, val, schema) ==
    IF ps = {} THEN [ok |-> TRUE, pages |-> {FirstPage(id, val, schema)}]
    ELSE InsertBetween(ps, first(ps), last(ps), id, << Id(id) >> \o val)

\* The loop of sync over the WAL map, in key order.
RECURSIVE SyncLoop(_, _, _, _)
SyncStep(r, recs, ks, schema) ==
    IF ~r.ok THEN r ELSE SyncLoop(r.pages, recs, Tail(ks), schema)

SyncLoop(ps, recs, ks, schema) ==
    IF ks = << >> THEN [ok |-> TRUE, pages |-> ps]
    ELSE SyncStep(insert_to_page(ps, Head(ks), recs[Head(ks)], schema), recs, ks, schema)

\* file.seek(pos); file.write_all(block): a seek past the end leaves a hole of
\* zero bytes.
WriteAt(file, pos, block) ==
    (IF pos <= Len(file) THEN SubSeq(file, 1, pos) ELSE file \o Zeros(pos - Len(file)))
    \o block
    \o (IF pos + Len(block) < Len(file)
        THEN SubSeq(file, pos + Len(block) + 1, Len(file))
        ELSE << >>)

\* The loop of serialize from position i (from 0) on: a page is written when it
\* is dirty.  [ok, file]: ok = FALSE is the panic of to_page_bytes; the blocks
\* written before it are in the file.
RECURSIVE SerializeLoop(_, _, _)
SerializeStep(seq, i, file, b) ==
    IF ~b.ok THEN [ok |-> FALSE, file |-> file]
    ELSE SerializeLoop(seq, i + 1, WriteAt(file, i * PAGE_SIZE, b.bytes))

SerializeLoop(seq, i, file) ==
    IF i >= Len(seq) THEN [ok |-> TRUE, file |-> file]
    ELSE IF ~seq[i + 1].dirty THEN SerializeLoop(seq, i + 1, file)
    ELSE SerializeStep(seq, i, file, Page_to_page_bytes(seq[i + 1]))

serialize(ps, file) ==
    SerializeLoop(PageSeq(ps), 0, file)

\* The pages of a data file.  [ok, pages]: ok = FALSE is the failed assert on the
\* length or a panic of Page::from_bytes.
PagesOfBlocks(blocks) ==
    IF \E b \in blocks : ~b.ok THEN [ok |-> FALSE, pages |-> {}]
    ELSE [ok |-> TRUE, pages |-> {b.page : b \in blocks}]

deserialize(bytes, schema) ==
    IF Len(bytes) % PAGE_SIZE # 0 THEN [ok |-> FALSE, pages |-> {}]
    ELSE PagesOfBlocks({Page_from_bytes(Slice(bytes, i * PAGE_SIZE, (i + 1) * PAGE_SIZE),
                                        schema) :
                           i \in 0..((Len(bytes) \div PAGE_SIZE) - 1)})

\* main.rs: the WAL map rebuilt from the records of the WAL file, in file order.
ReplayOne(cache, r) ==
    IF r.t = "Insert"
    THEN [k \in DOMAIN cache \cup {r.id} |-> IF k = r.id THEN r.row ELSE cache[k]]
    ELSE [k \in DOMAIN cache \ {r.id} |-> cache[k]]

RECURSIVE Replay(_, _)
Replay(cache, recs) ==
    IF recs = << >> THEN cache
    ELSE Replay(ReplayOne(cache, Head(recs)), Tail(recs))

\* main.rs: whether the row tail matches the schema's tail kinds.
\* schema.len() - 1 on an empty schema: a build with overflow checks panics
\* ("attempt to subtract with overflow"); one without wraps to usize::MAX, which
\* no length equals, as no length equals the -1 of the model.
VerifyOverflows(schema) ==
    Len(schema) = 0

verify_insert(vals, schema) ==
    /\ Len(vals) = Len(schema) - 1
    /\ \A i \in 1..Len(vals) : vals[i].k = schema[i + 1]

(***************************************************************************)
(* State.                                                                  *)
(***************************************************************************)
VARIABLES
    pages,      \* DB.pages: the BTreeSet<Page>, as a set of page records
    records,    \* DB.wal.records: the WAL map, a function from ids to row tails
    schema,     \* DB.schema.schema: the column kinds
    walFile,    \* the bytes of the {name}.1.wal file
    dbFile,     \* the bytes of the {name}.1.db file
    schemaFile, \* the bytes of the {name}.1.schema file
    status,     \* "up": a DB value exists; "panicked": the process died of a
                \* panic (pages, records and schema are then the memory at the
                \* panic)
    ops,        \* the number of inserts and removes made so far
    lastOp,     \* the last operation: its name, arguments and returned value, and
                \* run, what the caller did since the start of the process
    call,       \* codec specifications: the last function applied
    input,      \* codec specifications: the rows or WAL records drawn
    made,       \* codec specifications: the page built from the rows, or the bytes
                \* of the records
    output      \* codec specifications: what the last function returned

db == << pages, records, schema, walFile, dbFile, schemaFile, status, ops, lastOp >>
codec == << call, input, made, output >>
vars == << pages, records, schema, walFile, dbFile, schemaFile, status, ops, lastOp,
           call, input, made, output >>

\* main.rs: the schema of a new database.
TheSchema == << "Id", "U32", "Bytes", "Bool" >>

\* The row tails the model inserts.  With its id a row of TailA takes 11 bytes,
\* a row of TailB 23 and a row of TailC 57, one more than PAGE_SIZE.
TailA == << U32(1), Bytes(<< >>), Bool(FALSE) >>
TailB == << U32(2), Bytes(<< 7, 7, 7, 7, 7, 7, 7, 7, 7, 7, 7, 7 >>), Bool(TRUE) >>
TailC == << U32(3), Bytes([i \in 1..46 |-> 7]), Bool(TRUE) >>
Tails == {TailA, TailB, TailC}

\* Row tails that do not match TheSchema: too short, and a cell of another kind.
BadTails == {<< U32(1) >>, << U32(1), Bool(TRUE), Bool(FALSE) >>}

\* What get returns for every id.
Visible(ps, recs) ==
    [id \in Ids |-> DB_get(ps, recs, id)]

\* What the caller did since the start of the process: nothing ("opened"), only
\* inserts ("inserts"), only inserts and then one sync ("inserts_synced"), or
\* anything else ("other").  A rejected insert command does not count.
RunAfter(run, name) ==
    IF name = "insert" THEN (IF run \in {"opened", "inserts"} THEN "inserts" ELSE "other")
    ELSE IF name = "sync" THEN (IF run = "inserts" THEN "inserts_synced" ELSE "other")
    ELSE IF name = "remove" THEN "other"
    ELSE IF name = "rejected" THEN run
    ELSE "opened"

Op(name, id, val, ret) ==
    [op |-> name, id |-> id, val |-> val, ret |-> ret, run |-> RunAfter(lastOp.run, name)]

\* The pages of an index as DB::new_with_pages takes it: the ids of S, each with
\* TailA, cut into pages before every id of starts; clean pages of Page::new, or
\* the dirty pages split returns.
InitPage(ids, dirty) ==
    IF dirty THEN Page_new_dirty(DataRows([x \in ids |-> TailA]), TheSchema)
    ELSE Page_new(DataRows([x \in ids |-> TailA]), TheSchema)

InitPages(S, starts, dirty) ==
    {InitPage({x \in S : x >= c /\ \A d \in starts : d > c => x < d}, dirty) : c \in starts}

InitIndex(S, C, dirty) ==
    IF S = {} THEN {} ELSE InitPages(S, C \cup {Min(S)}, dirty)

\* No codec function has been applied.
NoCall ==
    /\ call = "none"
    /\ input = << >>
    /\ made = << >>
    /\ output = << >>

\* A new database over the given pages.
NewWithPages(ps) ==
    /\ pages = ps
    /\ records = << >>
    /\ schema = TheSchema
    /\ walFile = << >>
    /\ dbFile = << >>
    /\ schemaFile = << >>
    /\ status = "up"
    /\ ops = 0
    /\ lastOp = [op |-> "new", id |-> 0, val |-> << >>, ret |-> None, run |-> "opened"]

Init ==
    /\ \E S \in SUBSET Ids : \E C \in SUBSET S : \E dirty \in BOOLEAN :
          NewWithPages(InitIndex(S, C, dirty))
    /\ NoCall

(***************************************************************************)
(* wal.rs: WAL::insert and WAL::remove on the map; both append to the file. *)
(***************************************************************************)
WAL_insert(recs, id, val) ==
    [k \in DOMAIN recs \cup {id} |-> IF k = id THEN val ELSE recs[k]]

WAL_remove(recs, id) ==
    [k \in DOMAIN recs \ {id} |-> recs[k]]

\* db.rs DB::insert
Inserted(id, val) ==
    /\ ops' = ops + 1
    /\ records' = WAL_insert(records, id, val)
    /\ walFile' = walFile \o WALRecord_to_bytes(Insert(id, val))
    /\ lastOp' = Op("insert", id, val, None)
    /\ UNCHANGED << pages, schema, dbFile, schemaFile, status >>
    /\ UNCHANGED codec

DBInsert(id, val) ==
    /\ ops < MaxOps
    /\ Inserted(id, val)

\* main.rs: "Schema did not match, rejecting insert."
InsertRejected ==
    /\ lastOp' = Op("rejected", 0, << >>, None)
    /\ UNCHANGED << pages, records, schema, walFile, dbFile, schemaFile, status, ops >>
    /\ UNCHANGED codec

\* main.rs: the subtraction in verify_insert panics.
VerifyPanicked ==
    /\ status' = "panicked"
    /\ lastOp' = Op("verify_panicked", 0, << >>, None)
    /\ UNCHANGED << pages, records, schema, walFile, dbFile, schemaFile, ops >>
    /\ UNCHANGED codec

\* main.rs: the insert command.
InsertCommand(id, val) ==
    /\ status = "up"
    /\ \/ VerifyOverflows(schema) /\ VerifyPanicked
       \/ ~verify_insert(val, schema) /\ InsertRejected
       \/ verify_insert(val, schema) /\ DBInsert(id, val)

\* if the page still has items, it is added back
Readd(ps, r) ==
    [ok |-> TRUE,
     pages |-> IF r.page.header.count # 0 THEN ps \cup {r.page} ELSE ps,
     ret |-> r.ret]

RemoveFrom(ps, next, id) ==
    IF ~next.some THEN [ok |-> FALSE, pages |-> ps, ret |-> None]
    ELSE Readd(ps \ {next.page}, Page_remove(next.page, id))

\* The page path of DB::remove.  [ok, pages, ret]: ok = FALSE is the unwrap of an
\* empty range.
RemoveFromPages(ps, id) ==
    IF ps = {} THEN [ok |-> TRUE, pages |-> ps, ret |-> None]
    ELSE IF id < first(ps).header.start THEN [ok |-> TRUE, pages |-> ps, ret |-> None]
    ELSE IF id > last(ps).header.end THEN [ok |-> TRUE, pages |-> ps, ret |-> None]
    ELSE RemoveFrom(ps, RangeNext(ps, id), id)

\* A remove that returns nothing for an id it took out of the WAL map.
DB_remove_wal_silent(ps, recs, id) ==
    IF id \in DOMAIN recs
    THEN [ok |-> TRUE, pages |-> ps, records |-> WAL_remove(recs, id), ret |-> None]
    ELSE [records |-> recs] @@ RemoveFromPages(ps, id)

\* DB::remove on the WAL map and the pages: [ok, pages, records, ret]
DB_remove(ps, recs, id) ==
    IF id \in DOMAIN recs
    THEN [ok |-> TRUE, pages |-> ps, records |-> WAL_remove(recs, id),
          ret |-> Some(recs[id])]
    ELSE [records |-> recs] @@ RemoveFromPages(ps, id)

RemoveApplied(r, id) ==
    /\ pages' = r.pages
    /\ records' = r.records
    /\ status' = IF r.ok THEN "up" ELSE "panicked"
    /\ lastOp' = Op("remove", id, << >>, r.ret)

\* db.rs DB::remove
DBRemove(id) ==
    /\ status = "up"
    /\ ops < MaxOps
    /\ ops' = ops + 1
    /\ walFile' = walFile \o WALRecord_to_bytes(Delete(id))
    /\ RemoveApplied(DB_remove(pages, records, id), id)
    /\ UNCHANGED << schema, dbFile, schemaFile >>
    /\ UNCHANGED codec

\* A sync that clears the WAL map and leaves the WAL file as it is.
Serialized_keeps_wal_file(ps, recs, wal, w) ==
    [ok |-> w.ok, pages |-> ps, records |-> IF w.ok THEN << >> ELSE recs,
     dbFile |-> w.file, walFile |-> wal]

\* DB::sync on the given memory and files: [ok, pages, records, dbFile, walFile].
\* ok = FALSE is a panic; the WAL is then left as it was.
Serialized(ps, recs, wal, w) ==
    IF ~w.ok
    THEN [ok |-> FALSE, pages |-> ps, records |-> recs, dbFile |-> w.file, walFile |-> wal]
    ELSE [ok |-> TRUE, pages |-> ps, records |-> << >>, dbFile |-> w.file,
          walFile |-> << >>]

Folded(l, recs, file, wal) ==
    IF ~l.ok
    THEN [ok |-> FALSE, pages |-> l.pages, records |-> recs, dbFile |-> file,
          walFile |-> wal]
    ELSE Serialized(l.pages, recs, wal, serialize(l.pages, file))

DB_sync(ps, recs, sch, file, wal) ==
    Folded(SyncLoop(ps, recs, Ascending(DOMAIN recs), sch), recs, file, wal)

SyncApplied(r) ==
    /\ pages' = r.pages
    /\ records' = r.records
    /\ dbFile' = r.dbFile
    /\ walFile' = r.walFile
    /\ status' = IF r.ok THEN "up" ELSE "panicked"

\* db.rs DB::sync
DBSync ==
    /\ status = "up"
    /\ SyncApplied(DB_sync(pages, records, schema, dbFile, walFile))
    /\ lastOp' = Op("sync", 0, << >>, None)
    /\ UNCHANGED << schema, schemaFile, ops >>
    /\ UNCHANGED codec

\* main.rs: what the recovery path builds from the three files before its sync.
\* [ok, pages, records, schema]: ok = FALSE is a panic while reading them.
LoadedWith(sch, d, w) ==
    IF ~d.ok \/ ~w.ok
    THEN [ok |-> FALSE, pages |-> {}, records |-> << >>, schema |-> sch]
    ELSE [ok |-> TRUE, pages |-> d.pages, records |-> Replay(<< >>, w.recs),
          schema |-> sch]

LoadedSchema(s, file, wal) ==
    IF ~s.ok THEN [ok |-> FALSE, pages |-> {}, records |-> << >>, schema |-> << >>]
    ELSE LoadedWith(s.schema, deserialize(file, s.schema), deserialize_wal(wal, s.schema))

Loaded(file, wal, schFile) ==
    LoadedSchema(schema_from_bytes(schFile), file, wal)

\* main.rs: the database files exist, so the schema, the pages and the WAL are
\* read and the WAL is folded by a sync.
Opened(l, file, wal) ==
    /\ schema' = l.schema
    /\ IF l.ok THEN SyncApplied(DB_sync(l.pages, l.records, l.schema, file, wal))
       ELSE /\ pages' = l.pages
            /\ records' = l.records
            /\ status' = "panicked"
            /\ dbFile' = file
            /\ walFile' = wal

Open(file, wal, schFile) ==
    Opened(Loaded(file, wal, schFile), file, wal)

\* The process is killed and started again: the memory is gone, the files are as
\* they were.
CrashReopen ==
    /\ status = "up"
    /\ Open(dbFile, walFile, schemaFile)
    /\ lastOp' = Op("crash_open", 0, << >>, None)
    /\ UNCHANGED << schemaFile, ops >>
    /\ UNCHANGED codec

\* The process is killed inside DB::sync, after serialize has written the pages
\* and before the WAL file is truncated, and started again.
SyncKilledReopen ==
    /\ status = "up"
    /\ LET r == DB_sync(pages, records, schema, dbFile, walFile)
       IN  r.ok /\ Open(r.dbFile, walFile, schemaFile)
    /\ lastOp' = Op("sync_killed_open", 0, << >>, None)
    /\ UNCHANGED << schemaFile, ops >>
    /\ UNCHANGED codec

\* main.rs drop(db), then a new start: Drop for DB serializes the pages (a panic
\* of it leaves the blocks written before it), Drop for Schema writes the schema
\* file.
CloseReopen ==
    /\ status = "up"
    /\ schemaFile' = schema_to_bytes(schema)
    /\ Open(serialize(pages, dbFile).file, walFile, schema_to_bytes(schema))
    /\ lastOp' = Op("close_open", 0, << >>, None)
    /\ UNCHANGED ops
    /\ UNCHANGED codec

\* A new start after a panic.
Restart ==
    /\ status = "panicked"
    /\ Open(dbFile, walFile, schemaFile)
    /\ lastOp' = Op("restart", 0, << >>, None)
    /\ UNCHANGED << schemaFile, ops >>
    /\ UNCHANGED codec

Next ==
    \/ \E id \in Ids, val \in Tails \cup BadTails : InsertCommand(id, val)
    \/ \E id \in Ids : DBRemove(id)
    \/ DBSync
    \/ CrashReopen
    \/ SyncKilledReopen
    \/ CloseReopen
    \/ Restart

Spec == Init /\ [][Next]_vars

(***************************************************************************)
(* The fold of inserts into an index, as tests::insert and                 *)
(* tests::insert_loop drive it: an index of dirty pages over the ids        *)
(* 1..MaxFoldId, runs of inserts of ascending ids, and syncs.               *)
(***************************************************************************)
InitFold ==
    /\ \E S \in SUBSET (1..MaxFoldId) : \E C \in SUBSET S : NewWithPages(InitIndex(S, C, TRUE))
    /\ NoCall

FoldInsert(id) ==
    /\ status = "up"
    /\ ops < MaxFoldOps
    /\ lastOp.op = "insert" => id > lastOp.id
    /\ Inserted(id, TailA)

NextFold ==
    \/ \E id \in 1..MaxFoldId : FoldInsert(id)
    \/ DBSync

SpecFold == InitFold /\ [][NextFold]_vars

(***************************************************************************)
(* The cells on their own: a cell is drawn, measured by RowVal::size and    *)
(* encoded by RowVal::to_bytes.                                             *)
(***************************************************************************)
InitCell ==
    /\ NewWithPages({})
    /\ call = "cell"
    /\ input \in {Id(n) : n \in Ids} \cup {U32(n) : n \in {0, 1, U32_MAX}}
                \cup {Bool(x) : x \in BOOLEAN}
                \cup {Bytes(Zeros(L)) : L \in (0..MaxCellLen) \cup ((U16_MAX - 2)..U16_MAX)}
    /\ made = << >>
    /\ output = << >>

CellSize ==
    /\ call = "cell"
    /\ call' = "size"
    /\ output' \in RowVal_size_outcomes(input)
    /\ UNCHANGED << input, made >>
    /\ UNCHANGED db

CellToBytes ==
    /\ call = "size"
    /\ call' = "cell_to_bytes"
    /\ made' = RowVal_to_bytes(input)
    /\ UNCHANGED << input, output >>
    /\ UNCHANGED db

NextCell ==
    \/ CellSize
    \/ CellToBytes

SpecCell == InitCell /\ [][NextCell]_vars

(***************************************************************************)
(* The WAL codec on its own: a list of records is drawn, encoded as         *)
(* WAL::insert and WAL::remove append them to the file, and decoded by      *)
(* deserialize_wal.                                                         *)
(***************************************************************************)
WalRecords ==
    {Insert(id, val) : id \in Ids, val \in Tails} \cup {Delete(id) : id \in Ids}

\* The lists of at most MaxLen elements of S.
ListsOf(S) ==
    UNION {[1..n -> S] : n \in 0..MaxLen}

InitWal ==
    /\ NewWithPages({})
    /\ call = "records"
    /\ input \in ListsOf(WalRecords)
    /\ made = << >>
    /\ output = << >>

WalEncode ==
    /\ call = "records"
    /\ call' = "to_bytes"
    /\ made' = wal_to_bytes(input)
    /\ UNCHANGED << input, output >>
    /\ UNCHANGED db

WalDecode ==
    /\ call = "to_bytes"
    /\ call' = "deserialize_wal"
    /\ output' = deserialize_wal(made, TheSchema)
    /\ UNCHANGED << input, made >>
    /\ UNCHANGED db

\* WALRecord::from_bytes on the encoded list: the first record and the number
\* of bytes reported as consumed.
WalFromBytes ==
    /\ call = "to_bytes"
    /\ input # << >>
    /\ call' = "record_from_bytes"
    /\ output' = WALRecord_from_bytes(made, TheSchema)
    /\ UNCHANGED << input, made >>
    /\ UNCHANGED db

\* The file lost its last k bytes, fewer than the last record has: the process
\* was killed while WAL::insert or WAL::remove was writing the record.
WalCut(k) ==
    /\ call = "to_bytes"
    /\ input # << >>
    /\ k < Len(WALRecord_to_bytes(input[Len(input)]))
    /\ call' = "cut"
    /\ made' = SubSeq(made, 1, Len(made) - k)
    /\ UNCHANGED << input, output >>
    /\ UNCHANGED db

WalDecodeCut ==
    /\ call = "cut"
    /\ call' = "deserialize_cut"
    /\ output' = deserialize_wal(made, TheSchema)
    /\ UNCHANGED << input, made >>
    /\ UNCHANGED db

NextWal ==
    \/ WalEncode
    \/ WalDecode
    \/ WalFromBytes
    \/ \E k \in 1..MaxCut : WalCut(k)
    \/ WalDecodeCut

SpecWal == InitWal /\ [][NextWal]_vars

(***************************************************************************)
(* The page functions on their own: a list of rows is drawn; Page::new,     *)
(* to_page_bytes and from_bytes are applied in turn, or new_dirty, split    *)
(* and merge.                                                               *)
(***************************************************************************)
Rows ==
    {<< Id(id) >> \o val : id \in Ids, val \in Tails}

InitRows ==
    /\ NewWithPages({})
    /\ call = "rows"
    /\ input \in ListsOf(Rows)
    /\ made = << >>
    /\ output = << >>

PageNew ==
    /\ call = "rows"
    /\ call' = "new"
    /\ made' = Page_new(input, TheSchema)
    /\ UNCHANGED << input, output >>
    /\ UNCHANGED db

PageToPageBytes ==
    /\ call = "new"
    /\ call' = "to_page_bytes"
    /\ output' = Page_to_page_bytes(made)
    /\ UNCHANGED << input, made >>
    /\ UNCHANGED db

PageFromBytes ==
    /\ call = "to_page_bytes"
    /\ output.ok
    /\ call' = "from_bytes"
    /\ output' = Page_from_bytes(output.bytes, made.schema)
    /\ UNCHANGED << input, made >>
    /\ UNCHANGED db

PageNewDirty ==
    /\ call = "rows"
    /\ call' = "new_dirty"
    /\ made' = Page_new_dirty(input, TheSchema)
    /\ UNCHANGED << input, output >>
    /\ UNCHANGED db

PageSplit ==
    /\ call = "new_dirty"
    /\ call' = "split"
    /\ output' = Page_split(made)
    /\ UNCHANGED << input, made >>
    /\ UNCHANGED db

PageMerge ==
    /\ call = "split"
    /\ call' = "merge"
    /\ output' = Page_merge(output[1], output[2])
    /\ UNCHANGED << input, made >>
    /\ UNCHANGED db

\* The calls after which made is a page that insert, remove and split accept.
PageCalls == {"new", "new_dirty", "insert", "remove", "half", "merged"}

\* Page::insert and Page::remove on the page made so far; ops counts them.
PageInsert(row) ==
    /\ call \in PageCalls
    /\ ops < MaxPageOps
    /\ ops' = ops + 1
    /\ call' = "insert"
    /\ made' = Page_insert(made, row)
    /\ UNCHANGED << input, output >>
    /\ UNCHANGED << pages, records, schema, walFile, dbFile, schemaFile, status, lastOp >>

PageRemove(id) ==
    /\ call \in PageCalls
    /\ ops < MaxPageOps
    /\ ops' = ops + 1
    /\ call' = "remove"
    /\ made' = Page_remove(made, id).page
    /\ UNCHANGED << input, output >>
    /\ UNCHANGED << pages, records, schema, walFile, dbFile, schemaFile, status, lastOp >>

\* Page::split of a page that insert or remove changed.
PageSplitAny ==
    /\ call \in {"insert", "remove"}
    /\ call' = "split_any"
    /\ output' = Page_split(made)
    /\ UNCHANGED << input, made >>
    /\ UNCHANGED db

\* The caller goes on with one half of the split.
PageHalf(i) ==
    /\ call = "split_any"
    /\ call' = "half"
    /\ made' = output[i]
    /\ UNCHANGED << input, output >>
    /\ UNCHANGED db

\* The caller merges the second half into the first and goes on with it.
PageMergeAny ==
    /\ call = "split_any"
    /\ call' = "merged"
    /\ made' = Page_merge(output[1], output[2])
    /\ UNCHANGED << input, output >>
    /\ UNCHANGED db

NextPage ==
    \/ PageNew
    \/ PageToPageBytes
    \/ PageFromBytes
    \/ PageNewDirty
    \/ PageSplit
    \/ PageMerge
    \/ \E row \in Rows : PageInsert(row)
    \/ \E id \in Ids : PageRemove(id)
    \/ PageSplitAny
    \/ \E i \in 1..2 : PageHalf(i)
    \/ PageMergeAny

SpecPage == InitRows /\ [][NextPage]_vars

(***************************************************************************)
(* Properties of the database.                                             *)
(***************************************************************************)
\* C1 (read-your-writes before sync): right after insert(id, tail), get(id)
\* returns Some(tail), whatever the pages store for id.
C1_ReadYourWritesBeforeSync ==
    lastOp.op = "insert" => DB_get(pages, records, lastOp.id) = Some(lastOp.val)

\* An insert has just been made of an id for which a page stores another tail.
C1_InsertShadowsPage ==
    /\ lastOp.op = "insert"
    /\ \E p \in pages : /\ Page_get(p, lastOp.id).some
                        /\ Page_get(p, lastOp.id) # Some(lastOp.val)
    /\ DB_get(pages, records, lastOp.id) = Some(lastOp.val)

\* C2 (read-your-writes after sync): a sync that returns leaves every id of the
\* WAL map, that is every id inserted and not removed since the last sync,
\* readable with the tail it had in the map.
C2_ReadYourWritesAfterSync ==
    [][(lastOp'.op = "sync" /\ status' = "up")
        => \A id \in DOMAIN records : DB_get(pages', records', id) = Some(records[id])]_vars

\* C3 (remove-then-get): after insert(id, tail) and then remove(id), get(id)
\* returns None, also when a page stores id.
C3_RemoveThenGet ==
    [][(lastOp.op = "insert" /\ lastOp'.op = "remove" /\ lastOp'.id = lastOp.id)
        => DB_get(pages', records', lastOp.id) = None]_vars

\* (P4) every two pages have disjoint key ranges, and the index iterates over
\* them by ascending start.
Disjoint(ps) ==
    \A P \in ps : \A Q \in ps :
        P # Q => (P.header.end < Q.header.start \/ Q.header.end < P.header.start)

SortedByStart(seq) ==
    \A i \in 1..Len(seq) : \A j \in 1..Len(seq) :
        i < j => seq[i].header.start < seq[j].header.start

KeyDisjoint(ps) ==
    Disjoint(ps) /\ SortedByStart(PageSeq(ps))

\* C4 (disjoint key ranges): an insert or a sync on an index of pairwise disjoint
\* pages sorted by start leaves the pages pairwise disjoint and sorted by start.
C4_DisjointKeyRanges ==
    [][(lastOp'.op \in {"insert", "sync"} /\ status' = "up" /\ KeyDisjoint(pages))
        => KeyDisjoint(pages')]_vars

\* C5 (page size bound): after the inserts of a sync every page of the index
\* encodes into at most PAGE_SIZE bytes, and the sync does not panic.
C5_PageSizeBound ==
    lastOp.op = "sync"
        => (status = "up" /\ \A p \in pages : Len(Page_to_bytes(p)) <= PAGE_SIZE)

\* C6 (crash recovery of unsynced inserts): when the process is killed after
\* N >= 1 inserts and no sync, the next start makes every insert visible and
\* leaves the WAL map and the WAL file empty.
C6_CrashRecovery ==
    [][(lastOp.run = "inserts" /\ lastOp'.op = "crash_open")
        => /\ status' = "up"
           /\ \A id \in DOMAIN records : DB_get(pages', records', id) = Some(records[id])
           /\ records' = << >>
           /\ walFile' = << >>]_vars

\* C7 (recovery idempotence): after open; insert*; sync with at least one insert,
\* close; open yields the visible mapping there was before the close.
C7_RecoveryIdempotence ==
    [][(lastOp.run = "inserts_synced" /\ status = "up" /\ lastOp'.op = "close_open")
        => (status' = "up" /\ Visible(pages', records') = Visible(pages, records))]_vars
\* C11 (schema mismatch at insert): an insert command whose tail does not match
\* the schema is rejected, and leaves the WAL map, the WAL file and the pages as
\* they were, so that every get returns what it returned before.
C11_SchemaMismatchRejected ==
    [][lastOp'.op \in {"rejected", "verify_panicked"}
        => /\ lastOp'.op = "rejected"
           /\ status' = "up"
           /\ UNCHANGED << pages, records, walFile >>
           /\ Visible(pages', records') = Visible(pages, records)]_vars

\* The pages that hold id.
Holding(ps, id) ==
    {p \in ps : id \in DOMAIN p.data}

\* id is in neither the WAL map nor any page.
Unknown(ps, recs, id) ==
    id \notin DOMAIN recs /\ Holding(ps, id) = {}

C13_PagesChangeOnlyAtSync ==
    [][lastOp'.op \in {"insert", "remove"} => pages' = pages]_vars

\* C14 (sync folds the WAL): after a sync, every id of the WAL map of before is
\* in exactly one page, with the tail it had in the map.
C14_SyncFoldsWal ==
    [][(lastOp'.op = "sync" /\ status' = "up")
        => \A id \in DOMAIN records :
              /\ Cardinality(Holding(pages', id)) = 1
              /\ \A p \in Holding(pages', id) : p.data[id] = records[id]]_vars

\* The operations that end with a sync: sync itself and the three ways to start
\* over existing files.
EndsWithSync ==
    {"sync", "crash_open", "close_open", "restart"}

\* C15 (sync clears the WAL): after every sync that returns, the one of recovery
\* included, the WAL map is empty and the WAL file has length zero.
C15_SyncClearsWal ==
    (lastOp.op \in EndsWithSync /\ status = "up")
        => (records = << >> /\ Len(walFile) = 0)

\* A sync has returned after inserts that were in the WAL.
C15_SyncedInserts ==
    /\ lastOp.run = "inserts_synced"
    /\ status = "up"
    /\ pages # {}
    /\ records = << >>
    /\ Len(walFile) = 0

\* Block i (from 0) of the data file, << >> when the file ends before it.
Block(file, i) ==
    IF Len(file) >= (i + 1) * PAGE_SIZE THEN Slice(file, i * PAGE_SIZE, (i + 1) * PAGE_SIZE)
    ELSE << >>

\* C16 (data file image after sync): after a sync, block i of the data file is
\* the encoding of the i-th page of the index, for every i.
C16_DataFileImage ==
    (lastOp.op = "sync" /\ status = "up")
        => \A i \in 0..(Cardinality(pages) - 1) :
              Block(dbFile, i) = Page_to_page_bytes(PageSeq(pages)[i + 1]).bytes

\* C17 (data file length after sync): after a sync the data file holds no block
\* beyond the n pages of the index.
C17_DataFileLength ==
    (lastOp.op = "sync" /\ status = "up") => Len(dbFile) <= Cardinality(pages) * PAGE_SIZE

\* C18 (no empty page): no page of the index has count 0.
C18_NoEmptyPage ==
    status = "up" => \A p \in pages : p.header.count # 0

\* C19 (routing): on an index of pairwise disjoint pages the range query selects
\* the page whose range covers id, and get returns the tail a page stores for
\* an id that is not in the WAL map.
C19_Routing ==
    (status = "up" /\ KeyDisjoint(pages))
        => \A id \in Ids :
              /\ \A p \in pages : (p.header.start <= id /\ id <= p.header.end)
                                      => RangeNext(pages, id) = [some |-> TRUE, page |-> p]
              /\ \A p \in Holding(pages, id) :
                    id \notin DOMAIN records => DB_get(pages, records, id) = Some(p.data[id])

\* The number of keys over all pages.
TotalKeys(ps) ==
    Cardinality({x \in ps \X Ids : x[2] \in DOMAIN x[1].data})

\* C20 (overwrite): a second insert of an id makes get return the new tail
\* before the sync; a sync of inserts of ids that pages store makes get return
\* the new tails, replaces the tails in the pages that stored them and changes
\* neither the count of a page nor the number of keys of the index.
C20_Overwrite ==
    [][/\ (lastOp'.op = "insert" /\ lastOp'.id \in DOMAIN records)
            => DB_get(pages', records', lastOp'.id) = Some(lastOp'.val)
       /\ (/\ lastOp'.op = "sync"
           /\ status' = "up"
           /\ records # << >>
           /\ \A id \in DOMAIN records : Holding(pages, id) # {})
            => /\ \A id \in DOMAIN records :
                    /\ DB_get(pages', records', id) = Some(records[id])
                    /\ \A p \in Holding(pages', id) : p.data[id] = records[id]
               /\ TotalKeys(pages') = TotalKeys(pages)
               /\ {p.header : p \in pages'} = {p.header : p \in pages}]_vars

\* The two pages next to the gap id lies in: the page with the largest end below
\* id and the page with the smallest start above it.
Adjacent(ps, id) ==
    {p \in ps : p.header.end < id /\ \A q \in ps : q.header.end < id => q.header.end <= p.header.end}
    \cup {p \in ps : p.header.start > id
                     /\ \A q \in ps : q.header.start > id => q.header.start >= p.header.start}

\* id lies between the first start and the last end, and in no page's range.
InGap(ps, id) ==
    /\ ps # {}
    /\ first(ps).header.start < id
    /\ id < last(ps).header.end
    /\ \A p \in ps : ~(p.header.start <= id /\ id <= p.header.end)

\* The headers and rows of the pages.
Contents(ps) ==
    {[header |-> p.header, data |-> p.data] : p \in ps}

\* q took the row (id, tail) and became q2; the other pages are as they were.
TookRow(ps, ps2, q, q2, id, tail) ==
    /\ q2.data = WAL_insert(q.data, id, tail)
    /\ Contents(ps2 \ {q2}) = Contents(ps \ {q})

\* C21 (insert into a gap between pages): a sync that folds one insert of an id
\* between the first start and the last end that no page covers, into an index
\* of key-disjoint pages, adds the row to one of the two pages next to the gap,
\* leaves the rows and the header of every other page as they were, and leaves the
\* pages key-disjoint.
C21_InsertIntoGap ==
    [][(/\ lastOp'.op = "sync" /\ status' = "up"
        /\ KeyDisjoint(pages)
        /\ \E id \in DOMAIN records : DOMAIN records = {id} /\ InGap(pages, id))
        => /\ \A id \in DOMAIN records :
                 \E q \in Adjacent(pages, id) : \E q2 \in pages' :
                     TookRow(pages, pages', q, q2, id, records[id])
           /\ KeyDisjoint(pages')]_vars

\* C22 (no premature split): a sync that folds the inserts of n ids into an
\* empty index, when 12 + the bytes of the n rows is at most PAGE_SIZE, leaves
\* exactly one page, which holds the n rows and has count = n, start = the
\* smallest and end = the largest id.
C22_NoPrematureSplit ==
    [][(/\ lastOp'.op = "sync"
        /\ pages = {}
        /\ records # << >>
        /\ PageHeader_size + RowsSize(DataRows(records)) <= PAGE_SIZE)
        => /\ status' = "up"
           /\ Cardinality(pages') = 1
           /\ \A p \in pages' :
                 /\ p.data = records
                 /\ p.header = [end |-> Max(DOMAIN records), start |-> Min(DOMAIN records),
                                count |-> Cardinality(DOMAIN records)]]_vars

\* A sync has folded four inserts into one page of four rows, which fills its
\* block exactly.
C22_FullPageOfInserts ==
    /\ lastOp.op = "sync"
    /\ lastOp.run = "inserts_synced"
    /\ status = "up"
    /\ ops = 4
    /\ Cardinality(pages) = 1
    /\ \A p \in pages : p.header.count = 4 /\ Len(Page_to_bytes(p)) = PAGE_SIZE

\* C25 (first insert creates a dirty page): a sync that folds one WAL entry into
\* an empty index leaves a page that is dirty, and has written it to block 0 of
\* the data file.
C25_FirstInsertDirty ==
    [][(lastOp'.op = "sync" /\ status' = "up" /\ pages = {}
            /\ Cardinality(DOMAIN records) = 1)
        => /\ \A p \in pages' : p.dirty
           /\ Block(dbFile', 0) = Page_to_page_bytes(PageSeq(pages')[1]).bytes]_vars

\* Whether the block at position i (from 0) of the file is the encoding of the page.
Stored(file, i, page) ==
    Block(file, i) = Page_to_page_bytes(page).bytes

\* C26 (dirty bit meaning): after a sync every page of the index is dirty exactly
\* when it differs from the block at its position in the data file; a page the
\* sync has written is not dirty, a page never written is.
C26_DirtyBitMeaning ==
    (lastOp.op = "sync" /\ status = "up")
        => \A i \in 1..Cardinality(pages) :
               PageSeq(pages)[i].dirty <=> ~Stored(dbFile, i - 1, PageSeq(pages)[i])

\* C27 (remove on the page path does not log): a remove of an id that is not in
\* the WAL map and that removes the id from a page leaves the WAL file as it was.
C27_PageRemoveNotLogged ==
    [][(lastOp'.op = "remove" /\ lastOp'.id \notin DOMAIN records /\ lastOp'.ret.some)
        => walFile' = walFile]_vars

\* Whether a block of the data file decodes to a page that maps id to tail.
OnDiskAt(r, id, tail) ==
    r.ok /\ id \in DOMAIN r.page.data /\ r.page.data[id] = tail

OnDisk(file, id, tail) ==
    \E i \in 0..((Len(file) \div PAGE_SIZE) - 1) :
        OnDiskAt(Page_from_bytes(Block(file, i), TheSchema), id, tail)

\* C28 (crash loses an unsynced page remove): when remove(id) took the tail of id
\* out of a page that is in the data file, with nothing else in the WAL, and the
\* process is killed before the next sync, then after the recovery get(id) returns
\* that tail again.
C28_CrashLosesPageRemove ==
    [][(/\ lastOp.op = "remove" /\ lastOp.ret.some /\ status = "up"
        /\ records = << >>
        /\ walFile = WALRecord_to_bytes(Delete(lastOp.id))
        /\ OnDisk(dbFile, lastOp.id, lastOp.ret.v)
        /\ lastOp'.op = "crash_open")
        => (status' = "up" /\ DB_get(pages', records', lastOp.id) = lastOp.ret)]_vars

\* C35 (sync preserves the visible mapping): for every id, get returns after a
\* sync what it returned before the sync.
C35_SyncPreservesVisible ==
    [][(lastOp'.op = "sync" /\ status' = "up")
        => Visible(pages', records') = Visible(pages, records)]_vars

\* Whether the database d (its pages and WAL map) shows the index and the
\* visible mapping of the finished sync r.
AsCompleted(ps, recs, r) ==
    /\ Contents(ps) = Contents(r.pages)
    /\ Visible(ps, recs) = Visible(r.pages, r.records)

\* C36 (crash in the middle of sync): when the process is killed after sync has
\* written the pages and before it has truncated the WAL file, the recovery
\* succeeds and yields the index and the visible mapping the finished sync
\* would have left.
C36_CrashInSync ==
    [][lastOp'.op = "sync_killed_open"
        => /\ status' = "up"
           /\ AsCompleted(pages', records',
                          DB_sync(pages, records, schema, dbFile, walFile))]_vars

C8_WalRoundTrip ==
    call = "deserialize_wal" => output = [ok |-> TRUE, recs |-> input]

\* C9 (round-trip page codec): from_bytes of the to_page_bytes of a page built
\* from rows that fit returns a page with the header, data, size and schema of
\* the page.
C9_PageRoundTrip ==
    call = "from_bytes"
        => /\ output.ok
           /\ output.page.header = made.header
           /\ output.page.data = made.data
           /\ output.page.size = made.size
           /\ output.page.schema = made.schema

\* The pages the page functions have made so far.
SplitMade ==
    IF call \in {"split", "split_any", "half", "merged"} THEN {output[1], output[2]}
    ELSE IF call = "merge" THEN {output}
    ELSE IF call = "from_bytes" /\ output.ok THEN {output.page}
    ELSE {}

PagesMade ==
    IF call \in {"none", "rows", "records", "to_bytes", "cut", "deserialize_wal",
                 "deserialize_cut", "record_from_bytes"}
    THEN {}
    ELSE {made} \cup SplitMade

\* C23 (P2, header extent): every page made by Page::new, new_dirty, insert,
\* remove, split and merge that holds a row has start = the smallest and end =
\* the largest id of its data.
C23_HeaderExtent ==
    \A p \in PagesMade :
        DOMAIN p.data # {}
            => (p.header.start = Min(DOMAIN p.data) /\ p.header.end = Max(DOMAIN p.data))

\* C24 (P1, header count): every page made by Page::new, new_dirty, insert,
\* remove, split and merge has count = the number of ids of its data.
C24_HeaderCount ==
    \A p \in PagesMade : p.header.count = Cardinality(DOMAIN p.data)

\* A page built from two rows of one id, inserted into and then removed from,
\* whose count is the one id left.
C24_CountAfterRemove ==
    /\ call = "remove"
    /\ ops = 2
    /\ Len(input) = 2
    /\ RowId(input[1]) = RowId(input[2])
    /\ Cardinality(DOMAIN made.data) = 1
    /\ made.header.count = 1

\* head and tail are the two halves the claim describes for the page p.
Halves(p, head, tail) ==
    /\ Cardinality(DOMAIN head.data) = p.header.count \div 2
    /\ \A a \in DOMAIN head.data : \A b \in DOMAIN tail.data : a < b
    /\ DOMAIN head.data \cup DOMAIN tail.data = DOMAIN p.data
    /\ \A id \in DOMAIN head.data : head.data[id] = p.data[id]
    /\ \A id \in DOMAIN tail.data : tail.data[id] = p.data[id]
    /\ head.dirty /\ tail.dirty
    /\ head.schema = p.schema /\ tail.schema = p.schema
    /\ p.header.count = 1 => (DOMAIN head.data = {} /\ tail.data = p.data)

\* C31 (split partition): split of a page with count rows returns a head with the
\* count / 2 (rounded down) smallest ids and a tail with the rest, every id of
\* the head below every id of the tail, together the rows of the page with
\* their tails, both dirty and with the page's schema; for one row the head is
\* empty.
C31_SplitPartition ==
    call \in {"split", "split_any"} => Halves(made, output[1], output[2])

\* A page of three rows has been split into a head of one and a tail of two.
C31_SplitOfThree ==
    /\ call = "split_any"
    /\ made.header.count = 3
    /\ Cardinality(DOMAIN output[1].data) = 1
    /\ Cardinality(DOMAIN output[2].data) = 2

\* C32 (page insert equals reconstruction): insert of a row into the page
\* Page::new built from a list of rows leaves the page Page::new_dirty builds
\* from the list with the row appended: data, header, dirty and size.
C32_InsertEqualsReconstruction ==
    [][(call = "new" /\ call' = "insert")
        => \E row \in Rows : /\ made' = Page_insert(made, row)
                              /\ made' = Page_new_dirty(Append(input, row), TheSchema)]_vars

\* The rows of the list whose id is not id.
Without(rows, id) ==
    SelectSeq(rows, LAMBDA r : RowId(r) # id)

\* C33 (page remove equals reconstruction): remove of an id from the page
\* Page::new built from a list of rows that holds the id returns the id's tail
\* and leaves the page Page::new_dirty builds from the rows of the other ids:
\* data, header, dirty and size.
C33_RemoveEqualsReconstruction ==
    [][(call = "new" /\ call' = "remove")
        => \A id \in DOMAIN made.data \ DOMAIN made'.data :
               /\ Page_remove(made, id).ret = Some(made.data[id])
               /\ made' = Page_new_dirty(Without(input, id), TheSchema)]_vars

\* C34 (cell size arithmetic): size returns 4 for an Id and a U32 cell, 1 for a
\* Bool cell and 2 + L for a Bytes cell of L <= 65535 bytes, without a panic and
\* without wrapping, and the size is the length of the cell's encoding.
C34_CellSize ==
    /\ call \in {"size", "cell_to_bytes"}
        => /\ output.ok
           /\ output.n = CASE input.k = "Id" -> 4
                            [] input.k = "U32" -> 4
                            [] input.k = "Bool" -> 1
                            [] input.k = "Bytes" -> 2 + Len(input.b)
    /\ call = "cell_to_bytes" => output.n = Len(made)

\* C29 (truncated WAL tail): of a WAL file that holds complete records and then
\* a strict prefix of one more record, deserialize_wal returns the complete
\* records and does not panic.
C29_TruncatedWalTail ==
    call = "deserialize_cut"
        => output = [ok |-> TRUE, recs |-> SubSeq(input, 1, Len(input) - 1)]

\* C30 (WAL record length): the number of bytes WALRecord::from_bytes reports as
\* consumed is the encoded length of the record it read, 4 + the tail cells for
\* an Insert and 8 for a Delete.
C30_WalRecordLength ==
    call = "record_from_bytes"
        => /\ output.ok
           /\ output.rec = input[1]
           /\ output.n = Len(WALRecord_to_bytes(input[1]))

\* C10 (split/merge inverse): merging the two halves of the split of a page
\* built by new_dirty from a list of rows yields the page: rows, header, dirty
\* and size.
C10_SplitMergeInverse ==
    call = "merge" => output = made
====
